---- MODULE Spec2Model ----
(***************************************************************************)
(* A model of the server-side SSE hub of cdvelop/tinysse (src/hub.go):     *)
(* the id counter, the history buffer, the client registry guarded by one  *)
(* sync.RWMutex, and the buffered Go channel of every clientConnection.    *)
(*                                                                         *)
(* Atomicity.  A section run under h.mu.Lock() is one step: nothing can    *)
(* observe the hub while the write lock is held.  Broadcast is split where *)
(* the code can be interleaved or can wait: after h.mu.Unlock() (line 43), *)
(* and at every channel send `client.Send <- msg` (line 52), which waits   *)
(* while the channel's buffer is full.  The read lock is held from line 45 *)
(* until Broadcast returns, so the registry cannot change during a         *)
(* fan-out, and a step that needs the write lock waits for every fan-out   *)
(* in progress.                                                            *)
(*                                                                         *)
(* SSEMessage.Data and SSEMessage.HandlerID are opaque values that no      *)
(* branch of hub.go reads; a record is modelled by its ID and its Targets. *)
(***************************************************************************)
EXTENDS Integers, Sequences, FiniteSets, TLC

\* ------------------------------------------------------------------ bounds
\* The number of Broadcast calls made (h.lastID never exceeds it).
MaxID == 3
\* The largest Config.HistoryReplayBuffer configured (0 = unset).
MaxHistory == 2
\* The capacity of every client.Send channel (Config.ClientChannelBuffer).
ClientChannelBuffer == 1
\* The number of records that arrive on the client's stream.
MaxArrivals == 3
\* The number of consecutive failed attempts the client is followed for.
MaxAttempts == 3

\* The goroutines that call Broadcast.
Publishers == {"p1", "p2"}
\* The clientConnection objects (pointers) that handlers create.
Conns == {"c1", "c2", "c3", "c4"}
\* The `broadcast` argument lists that callers pass.
TargetLists == {<<>>, <<"B">>, <<"A", "B">>}

None == "none"

\* ---------------------------------------------------------------- helpers
Range(s) == {s[i] : i \in 1..Len(s)}

Min(a, b) == IF a < b THEN a ELSE b

\* clientConnection.ID: c1 and c3 are two objects with the same connection
\* id (a reconnect of the same client), c2 and c4 have their own.
ConnID(c) ==
    CASE c = "c1" -> "x" [] c = "c2" -> "y" [] c = "c3" -> "x" [] c = "c4" -> "z"

\* clientConnection.Channels, as resolved when the connection was made
\* (the resolver finds no channel for the request of c4).
Channels(c) ==
    CASE c = "c1" -> <<"A">> [] c = "c2" -> <<"A", "B">> [] c = "c3" -> <<"B">>
      [] c = "c4" -> <<>>

\* ------------------------------------------------- strconv (decimal text)
DigitChars == <<"0", "1", "2", "3", "4", "5", "6", "7", "8", "9">>

RECURSIVE FormatUint(_)
\* strconv.FormatUint(n, 10): the decimal digits of n, most significant
\* first, as a sequence of characters.
FormatUint(n) ==
    IF n < 10 THEN <<DigitChars[n + 1]>>
    ELSE FormatUint(n \div 10) \o <<DigitChars[(n % 10) + 1]>>

DigitValue(ch) == CHOOSE d \in 0..9 : DigitChars[d + 1] = ch

IsDigit(ch) == \E d \in 0..9 : DigitChars[d + 1] = ch

RECURSIVE ParseDigits(_, _)
ParseDigits(s, acc) ==
    IF s = <<>> THEN acc
    ELSE ParseDigits(Tail(s), acc * 10 + DigitValue(Head(s)))

\* A parse that takes a text with other characters for the number 0.
ParseUint_Lenient(s) ==
    IF s = <<>> \/ \E i \in 1..Len(s) : ~IsDigit(s[i])
    THEN [err |-> FALSE, val |-> 0]
    ELSE [err |-> FALSE, val |-> ParseDigits(s, 0)]

\* strconv.ParseUint(s, 10, 64): err for the empty string and for any
\* character that is not a decimal digit (a sign included); h.lastID
\* stays far below 2^64, so the range error is never met.
ParseUint(s) ==
    IF s = <<>> \/ \E i \in 1..Len(s) : ~IsDigit(s[i])
    THEN [err |-> TRUE, val |-> 0]
    ELSE [err |-> FALSE, val |-> ParseDigits(s, 0)]

\* The numeric value of a record's ID (0 when it does not parse).
IDValue(m) == ParseUint(m.ID).val

\* ------------------------------------------------------------------ state
VARIABLES
    lastID,               \* SSEHub.lastID
    messageBuffer,        \* SSEHub.messageBuffer
    clients,              \* SSEHub.clients: connection id -> client object
    HistoryReplayBuffer,  \* SSEHub.config.HistoryReplayBuffer
    Send,                 \* the records buffered in each client.Send
    closed,               \* whether close(client.Send) has run
    hpc,                  \* where the handler that owns each client is
    pc,                   \* where each publisher is inside Broadcast
    msg,                  \* Broadcast's local msg
    todo,                 \* clients the range loop has not visited yet
    cur,                  \* the client the range loop is at
    ti,                   \* index in `broadcast` of the pending send
    panic,                \* the runtime panic that ended the process
    published,            \* history: the ids assigned, in write-lock order
    lastSent,             \* history: the ID of the last record sent on each channel
    replay,               \* the last GetMessagesSince call: argument, result
                          \* and the length the buffer had
    got,                  \* history: the clients a running Broadcast has sent to
    state,                \* client engine: Idle, Connecting, Open, Backoff, Closed
    handler,              \* client engine: the callback set by OnMessage
    lastDeliveredID,      \* client engine: the watermark (empty = absent)
    attemptCount,         \* client engine: consecutive failed attempts
    currentDelay,         \* client engine: the delay of the current backoff
    MaxReconnectAttempts, \* Config.MaxReconnectAttempts (0 = no limit)
    inflight,             \* client engine: the event being delivered, and
                          \* whether the handler was called with it
    arrived,              \* history: the events that arrived on the stream
    delivered,            \* history: the records passed to the handler
    errors                \* history: terminal errors surfaced to the consumer

vars == <<lastID, messageBuffer, clients, HistoryReplayBuffer, Send, closed,
          hpc, pc, msg, todo, cur, ti, panic, published, lastSent, replay, got,
          state, handler, lastDeliveredID, attemptCount, currentDelay,
          MaxReconnectAttempts, inflight, arrived, delivered, errors>>

hubVars == <<lastID, messageBuffer, clients, HistoryReplayBuffer>>
pubVars == <<pc, msg, todo, cur, ti, got>>
cliVars == <<state, handler, lastDeliveredID, attemptCount, currentDelay,
             MaxReconnectAttempts, inflight, arrived, delivered, errors>>

NoMsg == [ID |-> <<>>, Targets |-> <<>>]

\* Before any GetMessagesSince call.
NoReplay == [since |-> <<>>, out |-> <<>>, seen |-> 0]

\* No event is being delivered.
NoEvent == [ev |-> [lastEventId |-> <<>>, type |-> "", data |-> ""],
            phase |-> "none"]

\* Config.RetryInterval and Config.MaxRetryDelay, in units of the base
\* interval.
RetryInterval == 1
MaxRetryDelay == 3

\* A client engine that was made and not yet told to connect.
InitEngine ==
    /\ state = "Idle"
    /\ handler = None
    /\ lastDeliveredID = <<>>
    /\ attemptCount = 0
    /\ currentDelay = RetryInterval
    /\ inflight = NoEvent
    /\ arrived = <<>>
    /\ delivered = <<>>
    /\ errors = 0

\* The process runs a hub and its client engine is never started.
NoClient == InitEngine /\ MaxReconnectAttempts = 0

\* NewHub: an empty registry, an empty buffer, a zero counter.  No channel
\* holds a record and nothing has been sent or has panicked.
InitHub ==
    /\ lastID = 0
    /\ messageBuffer = <<>>
    /\ clients = [k \in {} |-> None]
    /\ Send = [c \in Conns |-> <<>>]
    /\ closed = [c \in Conns |-> FALSE]
    /\ msg = [p \in Publishers |-> NoMsg]
    /\ todo = [p \in Publishers |-> {}]
    /\ cur = [p \in Publishers |-> None]
    /\ ti = [p \in Publishers |-> 0]
    /\ panic = None
    /\ published = <<>>
    /\ lastSent = [c \in Conns |-> <<>>]
    /\ replay = NoReplay
    /\ got = [p \in Publishers |-> {}]

\* Two publishers and the handlers of c1 and c2, which have made their
\* client objects and not yet registered them (c3 and c4 are not made in
\* this run); the hub keeps a history of one record.
Init ==
    /\ InitHub
    /\ NoClient
    /\ HistoryReplayBuffer = 1
    /\ hpc = [c \in Conns |-> IF c \in {"c1", "c2"} THEN "new" ELSE "absent"]
    /\ pc = [p \in Publishers |-> "idle"]

\* One publisher and the handler of c2, with every history capacity from 0
\* (unset) to MaxHistory.
InitHistory ==
    /\ InitHub
    /\ NoClient
    /\ HistoryReplayBuffer \in 0..MaxHistory
    /\ hpc = [c \in Conns |-> IF c = "c2" THEN "new" ELSE "absent"]
    /\ pc = [p \in Publishers |-> IF p = "p1" THEN "idle" ELSE "off"]

\* One publisher and callers of GetMessagesSince, no subscriber, every
\* history capacity from 0 (unset) to MaxHistory.
InitReplay ==
    /\ InitHub
    /\ NoClient
    /\ HistoryReplayBuffer \in 0..MaxHistory
    /\ hpc = [c \in Conns |-> "absent"]
    /\ pc = [p \in Publishers |-> IF p = "p1" THEN "idle" ELSE "off"]

\* One publisher, the handlers of c1 and c3, whose clients carry the same
\* id, and callers that unregister a client a second time or a client (c2)
\* that never was registered.
InitUnregister ==
    /\ InitHub
    /\ NoClient
    /\ HistoryReplayBuffer = 1
    /\ hpc = [c \in Conns |-> CASE c \in {"c1", "c3"} -> "new"
                                 [] c = "c2"          -> "stranger"
                                 [] OTHER             -> "absent"]
    /\ pc = [p \in Publishers |-> IF p = "p1" THEN "idle" ELSE "off"]

\* One publisher, the registered subscriber-to-be c1, and the requests of
\* c2 and c4, which have come in and whose channels are not yet resolved.
InitRegister ==
    /\ InitHub
    /\ NoClient
    /\ HistoryReplayBuffer = 1
    /\ hpc = [c \in Conns |-> CASE c = "c1"          -> "new"
                                 [] c \in {"c2", "c4"} -> "connecting"
                                 [] OTHER             -> "absent"]
    /\ pc = [p \in Publishers |-> IF p = "p1" THEN "idle" ELSE "off"]

\* A process that runs the client engine only: its hub stays as NewHub
\* made it.  The attempt limit is unset or MaxAttempts - 1.
InitClient ==
    /\ InitHub
    /\ HistoryReplayBuffer = 1
    /\ hpc = [c \in Conns |-> "absent"]
    /\ pc = [p \in Publishers |-> "off"]
    /\ InitEngine
    /\ MaxReconnectAttempts \in {0, MaxAttempts - 1}

\* One publisher, the handler of c2 and callers of GetMessagesSince; the
\* hub keeps a history of one record.
InitReadOnly ==
    /\ InitHub
    /\ NoClient
    /\ HistoryReplayBuffer = 1
    /\ hpc = [c \in Conns |-> IF c = "c2" THEN "new" ELSE "absent"]
    /\ pc = [p \in Publishers |-> IF p = "p1" THEN "idle" ELSE "off"]

\* A runtime panic ends the process: no goroutine takes a step after it.
Running == panic = None

\* ------------------------------------------------------------ sync.RWMutex
\* The publishers that hold the read lock (between lines 45 and 58): those
\* with a send pending.
Readers == {p \in Publishers : pc[p] = "fanout"}

\* h.mu.Lock() is granted only while no reader holds the lock.
CanLock == Readers = {}

\* --------------------------------------------------------------- Broadcast
\* A counter that skips a value (h.lastID += 2).
NextID_Skips(n) == n + 2

\* h.lastID++ (line 30).
NextID(n) == n + 1

\* A Broadcast that leaves the record out of the buffer.
AppendRecord_Skips(buf, m) == buf

\* Line 37: h.messageBuffer = append(h.messageBuffer, msg).
AppendRecord(buf, m) == Append(buf, m)

\* A trim that keeps the first n records and so evicts the newest.
Trim_KeepsOldest(buf, n) ==
    IF n > 0 /\ Len(buf) > n THEN SubSeq(buf, 1, n) ELSE buf

\* Lines 40-42: keep the last n records when n > 0 and the buffer is longer.
Trim(buf, n) ==
    IF n > 0 /\ Len(buf) > n
    THEN SubSeq(buf, Len(buf) - n + 1, Len(buf))
    ELSE buf

\* A filter that takes every target for a channel of the client.
TargetMatches_Any(c, target) == TRUE

\* Lines 50-51: the inner loop finds `target` among client.Channels.
TargetMatches(c, target) == \E j \in 1..Len(Channels(c)) : Channels(c)[j] = target

\* Lines 49-56: the first index after i of a target that makes the loop
\* send to client c, 0 when there is none.  The `break` of line 53 leaves
\* the loop over client.Channels only, so the loop over `broadcast` goes on.
NextSend(c, m, i) ==
    LET hits == {k \in (i + 1)..Len(m.Targets) : TargetMatches(c, m.Targets[k])}
    IN  IF hits = {} THEN 0 ELSE CHOOSE k \in hits : \A k2 \in hits : k <= k2

\* A range loop that is left after the first client that was sent to.
LoopNext_Breaks(m, left) ==
    LET hit == {c \in left : NextSend(c, m, 0) # 0}
    IN  IF hit = {} THEN {[cur |-> None, ti |-> 0, todo |-> {}]}
        ELSE {[cur |-> c, ti |-> NextSend(c, m, 0), todo |-> {}] : c \in hit}

\* Line 48: the range loop moves to a client it has not visited, in any
\* order (Go does not fix the iteration order of a map).  Clients that get
\* no send are passed without effect; left is the set not yet visited.
\* The result is the set of places the loop can stop at next: a pending
\* send to some client, or the end of the loop (cur = None).
LoopNext(m, left) ==
    LET hit == {c \in left : NextSend(c, m, 0) # 0}
    IN  IF hit = {} THEN {[cur |-> None, ti |-> 0, todo |-> {}]}
        ELSE {[cur |-> c, ti |-> NextSend(c, m, 0), todo |-> hit \ {c}] : c \in hit}

\* Lines 29-43: under the write lock, take the next id, build the record,
\* append it to the buffer and trim the buffer.
BroadcastLock(p, broadcast) ==
    /\ Running
    /\ UNCHANGED <<replay, cliVars>>
    /\ pc[p] = "idle"
    /\ lastID < MaxID
    /\ CanLock
    /\ LET id == NextID(lastID)
           m == [ID |-> FormatUint(id), Targets |-> broadcast]
       IN  /\ lastID' = id
           /\ messageBuffer' = Trim(AppendRecord(messageBuffer, m), HistoryReplayBuffer)
           /\ msg' = [msg EXCEPT ![p] = m]
           /\ published' = Append(published, m.ID)
    /\ pc' = [pc EXCEPT ![p] = "rlock"]
    /\ UNCHANGED <<clients, HistoryReplayBuffer, Send, closed, hpc, todo, cur,
                   ti, got, panic, lastSent>>

\* Where Broadcast is once its loops have run on from a finished send (or
\* from the start) to place nxt of LoopNext: at the next send, holding the
\* read lock, or, when the loops are over, past the deferred RUnlock of
\* line 46 and returned.
MoveOn(p, nxt) ==
    /\ cur' = [cur EXCEPT ![p] = nxt.cur]
    /\ ti' = [ti EXCEPT ![p] = nxt.ti]
    /\ todo' = [todo EXCEPT ![p] = nxt.todo]
    /\ pc' = [pc EXCEPT ![p] = IF nxt.cur = None THEN "idle" ELSE "fanout"]
    /\ msg' = [msg EXCEPT ![p] = IF nxt.cur = None THEN NoMsg ELSE @]

\* Line 45: take the read lock and start the range loop over h.clients.
BroadcastRLock(p) ==
    /\ Running
    /\ UNCHANGED <<replay, cliVars>>
    /\ pc[p] = "rlock"
    /\ \E nxt \in LoopNext(msg[p], {clients[k] : k \in DOMAIN clients}) :
          MoveOn(p, nxt)
    /\ UNCHANGED <<hubVars, Send, closed, hpc, panic, published, lastSent, got>>

\* Line 52: a send on a buffered channel waits while the buffer is full.
Blocked(p) ==
    /\ pc[p] = "fanout"
    /\ ~closed[cur[p]]
    /\ Len(Send[cur[p]]) >= ClientChannelBuffer

\* Line 52: `client.Send <- msg`.  A send on a closed channel panics; else
\* the record is appended to the channel's buffer once there is room.  The
\* loops then run on to the next send, or to the end and the return.
BroadcastSend(p) ==
    /\ Running
    /\ UNCHANGED <<replay, cliVars>>
    /\ pc[p] = "fanout"
    /\ ~Blocked(p)
    /\ LET c == cur[p] IN
       IF closed[c]
       THEN /\ panic' = "send on closed channel"
            /\ UNCHANGED <<Send, lastSent, pubVars>>
       ELSE /\ Send' = [Send EXCEPT ![c] = Append(@, msg[p])]
            /\ lastSent' = [lastSent EXCEPT ![c] = msg[p].ID]
            /\ panic' = panic
            /\ IF NextSend(c, msg[p], ti[p]) # 0
               THEN /\ ti' = [ti EXCEPT ![p] = NextSend(c, msg[p], ti[p])]
                    /\ got' = [got EXCEPT ![p] = @ \cup {c}]
                    /\ UNCHANGED <<cur, todo, pc, msg>>
               ELSE \E nxt \in LoopNext(msg[p], todo[p]) :
                       /\ MoveOn(p, nxt)
                       /\ got' = [got EXCEPT ![p] = IF nxt.cur = None THEN {}
                                                    ELSE @ \cup {c}]
    /\ UNCHANGED <<hubVars, closed, hpc, published>>

\* ----------------------------------------------------- register/unregister
\* Line 64: h.clients[client.ID] = client.
RegistryPut(reg, c) ==
    [k \in DOMAIN reg \cup {ConnID(c)} |-> IF k = ConnID(c) THEN c ELSE reg[k]]

\* An unregister that closes the channel and leaves the registry entry.
RegistryDelete_Keeps(reg, c) == reg

\* Line 72: delete(h.clients, client.ID).
RegistryDelete(reg, c) == [k \in DOMAIN reg \ {ConnID(c)} |-> reg[k]]

\* A handler that registers whatever channel list the resolver returned.
Rejects_ErrorOnly(c, err) == err

\* The connection is rejected when the resolver returned an error or no
\* channel.
Rejects(c, err) == err \/ Channels(c) = <<>>

\* The handler calls ChannelProvider.ResolveChannels once for the request:
\* a rejected request ends there, else the handler makes the client
\* object with the resolved channels.
ResolveChannels(c, err) ==
    /\ Running
    /\ hpc[c] = "connecting"
    /\ hpc' = [hpc EXCEPT ![c] = IF Rejects(c, err) THEN "rejected" ELSE "new"]
    /\ UNCHANGED <<hubVars, Send, closed, pubVars, panic, published, lastSent,
                   replay, cliVars>>

\* Lines 61-65, called once by the handler that made the client object.
register(c) ==
    /\ Running
    /\ UNCHANGED <<replay, cliVars>>
    /\ hpc[c] = "new"
    /\ CanLock
    /\ clients' = RegistryPut(clients, c)
    /\ hpc' = [hpc EXCEPT ![c] = "serving"]
    /\ UNCHANGED <<lastID, messageBuffer, HistoryReplayBuffer, Send, closed,
                   pubVars, panic, published, lastSent>>

\* The handler's delivery loop takes the oldest record from client.Send.
Deliver(c) ==
    /\ Running
    /\ UNCHANGED <<replay, cliVars>>
    /\ hpc[c] = "serving"
    /\ Send[c] # <<>>
    /\ Send' = [Send EXCEPT ![c] = Tail(@)]
    /\ UNCHANGED <<hubVars, closed, hpc, pubVars, panic, published, lastSent>>

\* The handler leaves its delivery loop (the connection is gone) and calls
\* unregister: from here on nobody reads client.Send.
Disconnect(c) ==
    /\ Running
    /\ UNCHANGED <<replay, cliVars>>
    /\ hpc[c] = "serving"
    /\ hpc' = [hpc EXCEPT ![c] = "unregistering"]
    /\ UNCHANGED <<hubVars, Send, closed, pubVars, panic, published, lastSent>>

\* An unregister that does not look the id up first.
Known_Always(reg, c) == TRUE

\* Line 71: _, ok := h.clients[client.ID].
Known(reg, c) == ConnID(c) \in DOMAIN reg

\* Lines 71-74: when the registry has an entry for client.ID, delete it and
\* close client.Send (closing a closed channel panics).
UnregisterBody(c) ==
    IF Known(clients, c)
    THEN /\ clients' = RegistryDelete(clients, c)
         /\ IF closed[c]
            THEN /\ panic' = "close of closed channel"
                 /\ closed' = closed
            ELSE /\ closed' = [closed EXCEPT ![c] = TRUE]
                 /\ panic' = panic
    ELSE UNCHANGED <<clients, closed, panic>>

\* Lines 68-75, once the write lock is granted: the call the handler makes
\* when it leaves.
unregister(c) ==
    /\ Running
    /\ UNCHANGED <<replay, cliVars>>
    /\ hpc[c] = "unregistering"
    /\ CanLock
    /\ UnregisterBody(c)
    /\ hpc' = [hpc EXCEPT ![c] = "gone"]
    /\ UNCHANGED <<lastID, messageBuffer, HistoryReplayBuffer, Send,
                   pubVars, published, lastSent>>

\* Lines 68-75 called for a client that is not registered: one whose
\* unregister call has returned ("gone") or one that was never registered
\* ("stranger").
unregisterRepeat(c) ==
    /\ Running
    /\ UNCHANGED <<replay, cliVars>>
    /\ hpc[c] \in {"gone", "stranger"}
    /\ CanLock
    /\ UnregisterBody(c)
    /\ hpc' = [hpc EXCEPT ![c] = "done"]
    /\ UNCHANGED <<lastID, messageBuffer, HistoryReplayBuffer, Send,
                   pubVars, published, lastSent>>

\* -------------------------------------------------------- GetMessagesSince
\* The Last-Event-ID values that callers pass: absent, the decimal text of
\* 0..MaxID, a number with a leading zero, and texts that are no number.
Watermarks ==
    {<<>>, <<"0", "2">>, <<"x">>, <<"-", "1">>} \cup {FormatUint(n) : n \in 0..MaxID}

\* A replay that also returns the record whose id equals the watermark.
GetMessagesSince_Inclusive(buf, lastEventID) ==
    IF lastEventID = <<>> \/ ParseUint(lastEventID).err THEN <<>>
    ELSE SelectSeq(buf, LAMBDA m :
             ~ParseUint(m.ID).err /\ IDValue(m) >= ParseUint(lastEventID).val)

\* Lines 81-98: nil for the empty string and for a text that does not
\* parse; else the records of the buffer, in buffer order, whose ID parses
\* to a number greater than the watermark.
GetMessagesSince(buf, lastEventID) ==
    IF lastEventID = <<>> THEN <<>>
    ELSE IF ParseUint(lastEventID).err THEN <<>>
    ELSE SelectSeq(buf, LAMBDA m :
             ~ParseUint(m.ID).err /\ IDValue(m) > ParseUint(lastEventID).val)

\* A replay that hands the buffer over and leaves it empty.
GetMessagesSinceCall_Drains(w) ==
    /\ Running
    /\ replay' = [since |-> w, out |-> GetMessagesSince(messageBuffer, w),
                  seen |-> Len(messageBuffer)]
    /\ messageBuffer' = <<>>
    /\ UNCHANGED <<lastID, clients, HistoryReplayBuffer, Send, closed, hpc,
                   pubVars, panic, published, lastSent, cliVars>>

\* Lines 78-99: a call of GetMessagesSince, under the read lock (which is
\* free whenever no write-lock section is running): it reads the buffer
\* and writes nothing.
GetMessagesSinceCall(w) ==
    /\ Running
    /\ replay' = [since |-> w, out |-> GetMessagesSince(messageBuffer, w),
                  seen |-> Len(messageBuffer)]
    /\ UNCHANGED <<hubVars, Send, closed, hpc, pubVars, panic, published,
                   lastSent, cliVars>>

\* ----------------------------------------------------------- client engine
\* The events the stream delivers to the engine's onmessage callback: one
\* per id in 1..MaxID, with the fields data, lastEventId and type.
Events ==
    {[lastEventId |-> FormatUint(n),
      type        |-> IF n = 1 THEN "test-event" ELSE "message",
      data        |-> IF n = 1 THEN "hello world" ELSE "update"] : n \in 1..MaxID}

\* A reconstruction that loses the event type.
FromEvent_DropsType(ev) == [ID |-> ev.lastEventId, Event |-> "", Data |-> ev.data]

\* The SSEMessage the handler is called with: ID from lastEventId, Event
\* from type, Data from data.
FromEvent(ev) == [ID |-> ev.lastEventId, Event |-> ev.type, Data |-> ev.data]

\* An engine that goes on with a delivery after Close.
Live_Always(s) == TRUE

\* Close has not been called.
Live(s) == s # "Closed"

\* A watermark that follows the last delivered record, whatever its id.
Advance_ToLast(w, id) == id

\* The watermark after a record with this id was delivered: the id when it
\* is a number above the watermark (or there is no watermark), else the
\* watermark.
Advance(w, id) ==
    IF ~ParseUint(id).err /\ (w = <<>> \/ ParseUint(id).val > ParseUint(w).val)
    THEN id
    ELSE w

\* OnMessage: sets the handler, before the engine is connected.
OnMessage ==
    /\ state = "Idle"
    /\ handler = None
    /\ handler' = "h"
    /\ UNCHANGED <<state, lastDeliveredID, attemptCount, currentDelay,
                   MaxReconnectAttempts, inflight, arrived, delivered, errors>>
    /\ UNCHANGED <<hubVars, Send, closed, hpc, pubVars, panic, published,
                   lastSent, replay>>

\* An engine that reconnects by itself after it was closed.
CanConnect_Closed(s) == s \in {"Idle", "Backoff", "Closed"}

\* Connect is taken from Idle and from Backoff only.
CanConnect(s) == s \in {"Idle", "Backoff"}

\* Connect, called by the consumer (Idle) or by the engine when the
\* backoff wait is over (Backoff): opens the stream with the watermark.
Connect ==
    /\ CanConnect(state)
    /\ state' = "Connecting"
    /\ UNCHANGED <<handler, lastDeliveredID, attemptCount, currentDelay,
                   MaxReconnectAttempts, inflight, arrived, delivered, errors>>
    /\ UNCHANGED <<hubVars, Send, closed, hpc, pubVars, panic, published,
                   lastSent, replay>>

\* The stream is open: attemptCount and currentDelay are reset.
ConnectSuccess ==
    /\ state = "Connecting"
    /\ state' = "Open"
    /\ attemptCount' = 0
    /\ currentDelay' = RetryInterval
    /\ UNCHANGED <<handler, lastDeliveredID, MaxReconnectAttempts, inflight,
                   arrived, delivered, errors>>
    /\ UNCHANGED <<hubVars, Send, closed, hpc, pubVars, panic, published,
                   lastSent, replay>>

\* A backoff that doubles without a cap.
NextDelay_Uncapped(attempts, delay) ==
    IF attempts = 0 THEN RetryInterval ELSE 2 * delay

\* The wait after a loss: the base interval after the first failure, then
\* twice the previous wait, capped at the maximum delay.
NextDelay(attempts, delay) ==
    IF attempts = 0 THEN RetryInterval ELSE Min(2 * delay, MaxRetryDelay)

\* An engine that has no attempt limit.
AtCeiling_Never(limit, attempts) == FALSE

\* attemptCount has reached the maximum, when the maximum is non-zero.
AtCeiling(limit, attempts) == limit # 0 /\ attempts >= limit

\* The transport signals closure or an error while no event is being
\* delivered: at the attempt limit the engine closes and surfaces a
\* terminal error; else it counts the attempt and waits, the first time
\* for the base interval and then for twice the previous wait, capped.
OnLoss ==
    /\ state \in {"Open", "Connecting"}
    /\ inflight.phase = "none"
    /\ IF AtCeiling(MaxReconnectAttempts, attemptCount)
       THEN /\ state' = "Closed"
            /\ errors' = errors + 1
            /\ UNCHANGED <<attemptCount, currentDelay>>
       ELSE /\ attemptCount < MaxAttempts
            /\ state' = "Backoff"
            /\ attemptCount' = attemptCount + 1
            /\ currentDelay' = NextDelay(attemptCount, currentDelay)
            /\ errors' = errors
    /\ UNCHANGED <<handler, lastDeliveredID, MaxReconnectAttempts, inflight,
                   arrived, delivered>>
    /\ UNCHANGED <<hubVars, Send, closed, hpc, pubVars, panic, published,
                   lastSent, replay>>

\* An event arrives on the open stream; the engine takes one at a time.
Arrive(ev) ==
    /\ state = "Open"
    /\ inflight.phase = "none"
    /\ Len(arrived) < MaxArrivals
    /\ inflight' = [ev |-> ev, phase |-> "arrived"]
    /\ arrived' = Append(arrived, ev)
    /\ UNCHANGED <<state, handler, lastDeliveredID, attemptCount, currentDelay,
                   MaxReconnectAttempts, delivered, errors>>
    /\ UNCHANGED <<hubVars, Send, closed, hpc, pubVars, panic, published,
                   lastSent, replay>>

\* The engine passes the event on: the handler is called with the
\* reconstructed record, unless Close was called meanwhile or no handler
\* is set, in which case the event is discarded.
InvokeCallback ==
    /\ inflight.phase = "arrived"
    /\ IF Live(state) /\ handler # None
       THEN /\ delivered' = Append(delivered, FromEvent(inflight.ev))
            /\ inflight' = [inflight EXCEPT !.phase = "called"]
       ELSE /\ delivered' = delivered
            /\ inflight' = NoEvent
    /\ UNCHANGED <<state, handler, lastDeliveredID, attemptCount, currentDelay,
                   MaxReconnectAttempts, arrived, errors>>
    /\ UNCHANGED <<hubVars, Send, closed, hpc, pubVars, panic, published,
                   lastSent, replay>>

\* After the handler has returned the engine updates the watermark, unless
\* Close was called meanwhile.
UpdateWatermark ==
    /\ inflight.phase = "called"
    /\ lastDeliveredID' = IF Live(state)
                          THEN Advance(lastDeliveredID, inflight.ev.lastEventId)
                          ELSE lastDeliveredID
    /\ inflight' = NoEvent
    /\ UNCHANGED <<state, handler, attemptCount, currentDelay,
                   MaxReconnectAttempts, arrived, delivered, errors>>
    /\ UNCHANGED <<hubVars, Send, closed, hpc, pubVars, panic, published,
                   lastSent, replay>>

\* Close, from any state: the engine is Closed and the transport released.
Close ==
    /\ state # "Closed"
    /\ state' = "Closed"
    /\ UNCHANGED <<handler, lastDeliveredID, attemptCount, currentDelay,
                   MaxReconnectAttempts, inflight, arrived, delivered, errors>>
    /\ UNCHANGED <<hubVars, Send, closed, hpc, pubVars, panic, published,
                   lastSent, replay>>

\* ------------------------------------------------------- the specification
Next ==
    \/ \E p \in Publishers, b \in TargetLists : BroadcastLock(p, b)
    \/ \E p \in Publishers : BroadcastRLock(p)
    \/ \E p \in Publishers : BroadcastSend(p)
    \/ \E c \in Conns : register(c)
    \/ \E c \in Conns : Deliver(c)
    \/ \E c \in Conns : Disconnect(c)
    \/ \E c \in Conns : unregister(c)

Spec == Init /\ [][Next]_vars

SpecHistory == InitHistory /\ [][Next]_vars

\* Publishes and replay calls on a hub that nobody is connected to.
NextReplay ==
    \/ \E p \in Publishers, b \in TargetLists : BroadcastLock(p, b)
    \/ \E p \in Publishers : BroadcastRLock(p)
    \/ \E w \in Watermarks : GetMessagesSinceCall(w)

SpecReplay == InitReplay /\ [][NextReplay]_vars

\* The hub with callers that repeat unregister.
NextUnregister ==
    \/ Next
    \/ \E c \in Conns : unregisterRepeat(c)

SpecUnregister == InitUnregister /\ [][NextUnregister]_vars

\* The hub with handlers that resolve the channels of incoming requests.
NextRegister ==
    \/ Next
    \/ \E c \in Conns, err \in BOOLEAN : ResolveChannels(c, err)

SpecRegister == InitRegister /\ [][NextRegister]_vars

\* The hub with callers of GetMessagesSince.
NextReadOnly ==
    \/ Next
    \/ \E w \in Watermarks : GetMessagesSinceCall(w)

SpecReadOnly == InitReadOnly /\ [][NextReadOnly]_vars

\* The client engine, its consumer and its transport.
NextClient ==
    \/ OnMessage
    \/ Connect
    \/ ConnectSuccess
    \/ OnLoss
    \/ \E ev \in Events : Arrive(ev)
    \/ InvokeCallback
    \/ UpdateWatermark
    \/ Close

SpecClient == InitClient /\ [][NextClient]_vars

\* ------------------------------------------------------------------ claims
\* C1: the ids assigned by Broadcast are exactly 1, 2, 3, ... in the order
\* the calls take the write lock: the i-th record stamped carries the
\* decimal text of i, so no id is shared, skipped or reused.
C1_IdsDenseInLockOrder ==
    /\ Len(published) = lastID
    /\ \A i \in 1..Len(published) :
          /\ ~ParseUint(published[i]).err
          /\ ParseUint(published[i]).val = i

\* Two publishers are inside Broadcast at once, after three ids were given.
C1_Witness ==
    /\ lastID >= 3
    /\ pc["p1"] = "rlock"
    /\ pc["p2"] = "rlock"

\* C2: on every subscriber's queue records are enqueued in ascending id
\* order: each record enqueued has an id no smaller than the one enqueued
\* before it on that queue, however concurrent Broadcast calls interleave
\* (the value of "no record yet" is 0).
C2_EnqueueOrderAscending ==
    [][\A c \in Conns :
          ParseUint(lastSent'[c]).val >= ParseUint(lastSent[c]).val]_vars

\* C3: the Broadcast that publishes a record enqueues it once on the queue
\* of a subscriber that follows several of its targets: a record is never
\* enqueued on a queue whose latest enqueued record is that same record.
C3_EnqueuedOnce ==
    [][\A c \in Conns :
          Len(Send'[c]) > Len(Send[c])
              => Send'[c][Len(Send'[c])].ID # lastSent[c]]_vars

\* C4: every record on a subscriber's queue has a target among that
\* subscriber's channels (so none with targets {B} reaches a subscriber of
\* {A}, and none with an empty target list reaches anybody).
C4_OnlyMatchingRecords ==
    \A c \in Conns : \A i \in 1..Len(Send[c]) :
        Range(Send[c][i].Targets) \cap Range(Channels(c)) # {}

\* c1 follows A only and has taken record 1; record 2, for B only, was
\* fanned out while c1 was registered with room in its queue: it is on the
\* queue of c2 and not on the queue of c1.
C4_Witness ==
    /\ hpc["c1"] = "serving"
    /\ lastSent["c1"] = <<"1">>
    /\ Send["c1"] = <<>>
    /\ Send["c2"] = <<[ID |-> <<"2">>, Targets |-> <<"B">>]>>
    /\ \A p \in Publishers : pc[p] = "idle"

\* C5: Broadcast never waits for a subscriber to drain its queue: while
\* Broadcast calls are in progress, one of them can take its next step
\* (taking the read lock, or passing a subscriber) with no delivery.
C5_BroadcastNeverWaitsForDrain ==
    (\E p \in Publishers : pc[p] # "idle")
        => \E p \in Publishers : ENABLED (BroadcastRLock(p) \/ BroadcastSend(p))

\* C6: a record that meets a full queue is dropped for that subscriber (and
\* counted): with capacity 1 and the first record still on the queue, the
\* second Broadcast is never found standing at that queue with its record.
C6_FullQueueDropsRecord ==
    \A p \in Publishers : ~Blocked(p)

\* C7: a slow subscriber does not stall the others: no Broadcast stands at
\* a full queue while a matching subscriber it has not visited yet has room
\* in its own queue.
C7_SlowSubscriberStallsNobody ==
    \A p \in Publishers :
        Blocked(p) => \A c \in todo[p] : Len(Send[c]) >= ClientChannelBuffer

\* C8: Broadcast and unregister never deadlock: no unregister call waits
\* for the write lock while a Broadcast that holds the read lock waits for
\* room in the queue whose only reader made that unregister call.
C8_NoDeadlockWithUnregister ==
    \A p \in Publishers : Blocked(p) => hpc[cur[p]] # "unregistering"

\* C9: no send on a closed queue and no close of a closed queue ever
\* panics, and once a subscriber's unregister call has returned nothing is
\* enqueued for it.
C9_NoSendAfterUnregister ==
    /\ [](panic = None)
    /\ [][\A c \in Conns : hpc[c] = "gone" => Send'[c] = Send[c]]_vars

\* A subscriber that had taken records was unregistered and its queue
\* closed while a Broadcast whose record it follows has its id and has not
\* started its fan-out.
C9_Witness ==
    \E p \in Publishers, c \in Conns :
        /\ pc[p] = "rlock"
        /\ hpc[c] = "gone"
        /\ closed[c]
        /\ lastSent[c] # <<>>
        /\ NextSend(c, msg[p], 0) # 0

\* C10: with a capacity N > 0 configured the buffer holds min(N, lastID)
\* records, and they are the records with the highest ids, contiguous and
\* in ascending order (the oldest are evicted first).
C10_BufferIsLastN ==
    HistoryReplayBuffer > 0 =>
        /\ Len(messageBuffer) = Min(lastID, HistoryReplayBuffer)
        /\ \A i \in 1..Len(messageBuffer) :
              /\ ~ParseUint(messageBuffer[i].ID).err
              /\ IDValue(messageBuffer[i]) = lastID - Len(messageBuffer) + i

\* More records were published than the buffer of capacity 2 keeps.
C10_Witness ==
    /\ HistoryReplayBuffer >= 2
    /\ lastID > HistoryReplayBuffer
    /\ Len(messageBuffer) = HistoryReplayBuffer

\* C11: with a capacity of 0 history is disabled: the buffer stays empty
\* and GetMessagesSince returns nothing, after any sequence of publishes.
C11_ZeroCapacityDisablesHistory ==
    HistoryReplayBuffer = 0 => messageBuffer = <<>> /\ replay.out = <<>>

\* The watermark of a call is a number greater than zero.
ValidWatermark(w) == ~ParseUint(w).err /\ ParseUint(w).val > 0

\* C12: a call with a present, non-zero watermark w returns records of the
\* buffer with id > w only, every such record exactly once, in ascending
\* id order.
C12_ReplayExactlyNewer ==
    [][(replay' # replay /\ ValidWatermark(replay'.since)) =>
          LET w   == ParseUint(replay'.since).val
              out == replay'.out
          IN  /\ \A i \in 1..Len(out) :
                    out[i] \in Range(messageBuffer) /\ IDValue(out[i]) > w
              /\ \A k \in 1..Len(messageBuffer) :
                    IDValue(messageBuffer[k]) > w =>
                        Cardinality({i \in 1..Len(out) :
                                        out[i] = messageBuffer[k]}) = 1
              /\ \A i, j \in 1..Len(out) :
                    i < j => IDValue(out[i]) < IDValue(out[j])]_vars

\* A call with watermark 1 on a buffer of capacity 2 that holds two
\* records returned the newer ones and left record 1 out.
C12_Witness ==
    /\ HistoryReplayBuffer = 2
    /\ replay.since = <<"1">>
    /\ replay.out # <<>>
    /\ Len(messageBuffer) = 2
    /\ \A i \in 1..Len(replay.out) : replay.out[i].ID # <<"1">>

\* C13: a call with the empty watermark and a call with the watermark 0
\* both return no records, whatever the buffer holds.
C13_ZeroWatermarkReplaysNothing ==
    replay.since \in {<<>>, <<"0">>} => replay.out = <<>>

\* C14: a call whose watermark is older than the oldest record retained
\* (the records in between were evicted) returns no records.
C14_StaleWatermarkReplaysNothing ==
    [][(/\ replay' # replay
        /\ ValidWatermark(replay'.since)
        /\ messageBuffer # <<>>
        /\ ParseUint(replay'.since).val + 1 < IDValue(messageBuffer[1]))
          => replay'.out = <<>>]_vars

\* C15: an unregister call for a client whose id the registry does not
\* hold (never registered, or removed by an earlier call) changes neither
\* the registry, the queues, the history nor the id counter, closes no
\* queue and does not panic.
C15_UnregisterIdempotent ==
    [][\A c \in Conns :
          (/\ hpc[c] \in {"unregistering", "gone", "stranger"}
           /\ hpc'[c] # hpc[c]
           /\ ConnID(c) \notin DOMAIN clients)
              => UNCHANGED <<clients, Send, closed, messageBuffer, lastID,
                             panic>>]_vars

\* Unregister was called a second time for c1, which had been sent a
\* record, and for c2, which never was registered, and no call panicked.
C15_Witness ==
    /\ hpc["c1"] = "done"
    /\ lastSent["c1"] # <<>>
    /\ closed["c1"]
    /\ hpc["c2"] = "done"
    /\ messageBuffer # <<>>
    /\ panic = None

C17_AppendedBeforeFanOut ==
    /\ [][\A p \in Publishers :
             (pc[p] = "idle" /\ pc'[p] = "rlock") =>
                 /\ lastID' = lastID + 1
                 /\ msg'[p].ID = FormatUint(lastID')
                 /\ messageBuffer' # <<>>
                 /\ messageBuffer'[Len(messageBuffer')] = msg'[p]
                 /\ \A w \in Watermarks :
                       (ValidWatermark(w) /\ ParseUint(w).val < lastID') =>
                           msg'[p] \in Range(GetMessagesSince(messageBuffer', w))
                 /\ Send' = Send]_vars
    /\ [](\A p \in Publishers :
             pc[p] \in {"rlock", "fanout"} =>
                 /\ msg[p].ID \in Range(published)
                 /\ \/ msg[p] \in Range(messageBuffer)
                    \/ lastID - IDValue(msg[p]) >= HistoryReplayBuffer)
    /\ [](\A c \in Conns : \A i \in 1..Len(Send[c]) :
             Send[c][i].ID \in Range(published))

\* A publisher has been given id 2 or more and has not started its fan-out
\* to a registered subscriber that will get the record; the record is the
\* newest of the buffer and a replay from watermark 1 returns it.
C17_Witness ==
    \E p \in Publishers, c \in Conns :
        /\ pc[p] = "rlock"
        /\ IDValue(msg[p]) >= 2
        /\ hpc[c] = "serving"
        /\ NextSend(c, msg[p], 0) # 0
        /\ messageBuffer # <<>>
        /\ messageBuffer[Len(messageBuffer)] = msg[p]
        /\ msg[p] \in Range(GetMessagesSince(messageBuffer, <<"1">>))

\* C18: with a handler set by OnMessage, the records the handler has been
\* called with are the events that arrived, in arrival order and one call
\* each, with ID, Event and Data equal to the event's lastEventId, type and
\* data; as long as Close has not been called only the event being
\* delivered can still be missing.
C18_HandlerCalledOncePerRecord ==
    handler # None =>
        /\ Len(delivered) <= Len(arrived)
        /\ \A i \in 1..Len(delivered) :
              /\ delivered[i].ID = arrived[i].lastEventId
              /\ delivered[i].Event = arrived[i].type
              /\ delivered[i].Data = arrived[i].data
        /\ state # "Closed" =>
              Len(delivered) =
                  Len(arrived) - (IF inflight.phase = "arrived" THEN 1 ELSE 0)

\* The handler has been called for three events, in their order of
\* arrival; the last of them is the "test-event" record with id 1, and its
\* call has just returned.
C18_Witness ==
    /\ handler # None
    /\ state = "Open"
    /\ Len(delivered) = 3
    /\ Len(arrived) = 3
    /\ delivered[1].ID # delivered[2].ID
    /\ delivered[3] = [ID |-> <<"1">>, Event |-> "test-event",
                       Data |-> "hello world"]
    /\ inflight.phase = "called"

\* C19: the watermark never decreases; it changes only in the step that
\* follows the handler's call with a record whose id is higher, and that
\* step leaves it at the record's id m when m is above the watermark w and
\* at w otherwise.
C19_WatermarkOnlyMovesForward ==
    [][/\ ParseUint(lastDeliveredID').val >= ParseUint(lastDeliveredID).val
       /\ lastDeliveredID' # lastDeliveredID =>
             /\ inflight.phase = "called"
             /\ delivered # <<>>
             /\ delivered[Len(delivered)].ID = lastDeliveredID'
             /\ ParseUint(lastDeliveredID').val > ParseUint(lastDeliveredID).val
       /\ (inflight.phase = "called" /\ inflight'.phase = "none" /\ Live(state)) =>
             LET m == ParseUint(inflight.ev.lastEventId).val
                 w == ParseUint(lastDeliveredID).val
             IN  lastDeliveredID' = IF m > w THEN inflight.ev.lastEventId
                                    ELSE lastDeliveredID]_vars

\* A record with id 1 was delivered to an engine whose watermark was 2
\* and the watermark stayed where it was; then the stream was lost.
C19_Witness ==
    /\ lastDeliveredID = <<"2">>
    /\ Len(delivered) >= 2
    /\ delivered[Len(delivered)].ID = <<"1">>
    /\ inflight.phase = "none"
    /\ state = "Backoff"
    /\ attemptCount = 1

\* C20: once the engine is Closed the handler is not called and the
\* watermark does not change, in whatever state Close found the engine.
C20_NothingAfterClose ==
    [][state = "Closed" =>
          /\ delivered' = delivered
          /\ lastDeliveredID' = lastDeliveredID
          /\ errors' = errors]_vars

\* Close was called between the handler's call with record 2 and the
\* watermark update, which then was dropped: the watermark is still 1.
C20_Witness ==
    /\ state = "Closed"
    /\ errors = 0
    /\ lastDeliveredID = <<"1">>
    /\ delivered # <<>>
    /\ delivered[Len(delivered)].ID = <<"2">>
    /\ inflight.phase = "none"

\* C21: no step leaves the state Closed, and the only step that enters it
\* is an explicit Close call.
C21_ClosedOnlyByClose ==
    [][/\ state = "Closed" => state' = "Closed"
       /\ (state # "Closed" /\ state' = "Closed") => Close]_vars

\* C21, amended: no step leaves the state Closed, and the steps that enter
\* it are an explicit Close call and a loss of the stream at the attempt
\* limit.
C21_ClosedIsTerminal ==
    [][/\ state = "Closed" => state' = "Closed"
       /\ (state # "Closed" /\ state' = "Closed") =>
             \/ Close
             \/ /\ OnLoss
                /\ MaxReconnectAttempts # 0
                /\ attemptCount >= MaxReconnectAttempts]_vars

\* The engine is Closed, Close was called while an event was in delivery,
\* and the event has since been dropped: a step was taken in Closed.
C21_Witness ==
    /\ state = "Closed"
    /\ errors = 0
    /\ handler # None
    /\ inflight.phase = "none"
    /\ Len(arrived) > Len(delivered)

\* 2 to the power n.
RECURSIVE Pow2(_)
Pow2(n) == IF n = 0 THEN 1 ELSE 2 * Pow2(n - 1)

C23_AttemptCeiling ==
    /\ [](/\ errors <= 1
          /\ errors = 1 => state = "Closed" /\ MaxReconnectAttempts # 0
          /\ MaxReconnectAttempts # 0 => attemptCount <= MaxReconnectAttempts
          /\ state = "Backoff" => ENABLED Connect)
    /\ [][/\ (OnLoss /\ MaxReconnectAttempts # 0
                     /\ attemptCount = MaxReconnectAttempts)
                => state' = "Closed" /\ errors' = errors + 1
          /\ (OnLoss /\ MaxReconnectAttempts = 0) => state' = "Backoff"
          /\ (MaxReconnectAttempts = 0 /\ state # "Closed" /\ state' = "Closed")
                => Close
          /\ errors = 1
                => UNCHANGED <<state, attemptCount, currentDelay, errors>>]_vars

\* With a limit of two attempts, an engine that had been open and had
\* delivered a record lost its stream a third time in a row, and is
\* Closed with one terminal error surfaced.
C23_Witness ==
    /\ MaxReconnectAttempts = 2
    /\ attemptCount = 2
    /\ state = "Closed"
    /\ errors = 1
    /\ delivered # <<>>

\* C24: when a Broadcast returns, every client that is in the registry
\* (and so was when the fan-out started, the registry being frozen during
\* a fan-out) and has a channel among the record's targets has been sent
\* the record; and a queue grows only by the record of a Broadcast that is
\* in its fan-out and has the queue's client, a registered one, in turn, so
\* no record reaches a client registered after its fan-out.
C24_FanOutComplete ==
    /\ [][\A p \in Publishers :
             (pc[p] \in {"rlock", "fanout"} /\ pc'[p] = "idle") =>
                 \A c \in Conns :
                     (/\ ConnID(c) \in DOMAIN clients
                      /\ clients[ConnID(c)] = c
                      /\ Range(Channels(c)) \cap Range(msg[p].Targets) # {})
                        => \/ c \in got[p]
                           \/ /\ pc[p] = "fanout"
                              /\ cur[p] = c
                              /\ Send'[c] = Append(Send[c], msg[p])]_vars
    /\ [][\A c \in Conns :
             Len(Send'[c]) > Len(Send[c]) =>
                 \E p \in Publishers :
                     /\ pc[p] = "fanout"
                     /\ cur[p] = c
                     /\ Send'[c] = Append(Send[c], msg[p])
                     /\ ConnID(c) \in DOMAIN clients
                     /\ clients[ConnID(c)] = c]_vars
    /\ [][\A p \in Publishers :
             pc[p] = "fanout" => clients' = clients]_vars

\* A Broadcast to the channels A and B has sent its record to c2 and has
\* c1, the last client left, in turn, with room in c1's queue.
C24_Witness ==
    \E p \in Publishers :
        /\ pc[p] = "fanout"
        /\ msg[p].Targets = <<"A", "B">>
        /\ cur[p] = "c1"
        /\ got[p] = {"c2"}
        /\ todo[p] = {}
        /\ Len(Send["c1"]) < ClientChannelBuffer

\* C25: the buffer and the id counter change only in the step of a
\* Broadcast that takes the next id, appends its record and trims; a
\* GetMessagesSince call leaves buffer, counter, registry and queues as
\* they are; register and unregister leave buffer and counter as they are;
\* and a buffer that holds a record is never empty again.
C25_OnlyBroadcastWritesHistory ==
    /\ [][(messageBuffer' # messageBuffer \/ lastID' # lastID) =>
             \E p \in Publishers :
                 /\ pc[p] = "idle"
                 /\ pc'[p] = "rlock"
                 /\ lastID' = lastID + 1
                 /\ messageBuffer' # <<>>
                 /\ \E k \in 0..Len(messageBuffer) :
                       messageBuffer' =
                           SubSeq(messageBuffer, k + 1, Len(messageBuffer))
                               \o <<msg'[p]>>]_vars
    /\ [][replay' # replay =>
             UNCHANGED <<messageBuffer, lastID, clients, Send, closed>>]_vars
    /\ [][(clients' # clients \/ hpc' # hpc) =>
             UNCHANGED <<messageBuffer, lastID>>]_vars
    /\ [][messageBuffer # <<>> => messageBuffer' # <<>>]_vars

\* Records were published, c2 registered, was sent a record and
\* unregistered, and a replay call returned a record: the buffer still
\* holds the newest record.
C25_Witness ==
    /\ hpc["c2"] = "gone"
    /\ lastSent["c2"] # <<>>
    /\ replay.out # <<>>
    /\ lastID >= 2
    /\ messageBuffer # <<>>
    /\ IDValue(messageBuffer[Len(messageBuffer)]) = lastID

\* C26: an unregister call that changes the registry removes the entry of
\* the very client it was called with; no queue is closed twice; and every
\* client in the registry has an open queue.
C26_UnregisterRemovesOnlyItself ==
    /\ [][\A c \in Conns :
             (/\ hpc[c] \in {"unregistering", "gone", "stranger"}
              /\ hpc'[c] # hpc[c]
              /\ clients' # clients)
                => clients[ConnID(c)] = c]_vars
    /\ [](panic # "close of closed channel")
    /\ [](\A k \in DOMAIN clients : ~closed[clients[k]])

\* C27: a call whose watermark is empty or has a character that is no
\* decimal digit returns no records and changes nothing of the hub.
C27_InvalidWatermarkReplaysNothing ==
    [][(/\ replay' # replay
        /\ \/ replay'.since = <<>>
           \/ \E i \in 1..Len(replay'.since) :
                 replay'.since[i] \notin Range(DigitChars))
          => /\ replay'.out = <<>>
             /\ UNCHANGED <<messageBuffer, lastID, clients, Send, closed,
                            panic>>]_vars

\* The last call had the watermark "-1" and found two records in the
\* buffer.
C27_Witness ==
    /\ replay.since = <<"-", "1">>
    /\ replay.seen = 2
    /\ replay.out = <<>>

====
